---- MODULE Spec2Model ----
(***************************************************************************)
(* Land-only outline of an administrative region.                          *)
(*                                                                         *)
(* Two scripts are modelled:                                               *)
(*   sample.py            "subtract": boundary minus the surrounding water *)
(*   show_land_outline.py "clamp":    boundary intersected with a land mask*)
(*                                                                         *)
(* Geometry lives on a small grid.  A shapely geometry is the set of unit  *)
(* cells it covers (cell <<x,y>> is the closed square [x,x+1] x [y,y+1]),  *)
(* its is_valid flag, the cells that buffer(0) leaves, and a flag for a    *)
(* geometry that is non-empty but has no area (the point or line that two  *)
(* merely touching polygons have in common).  The raw rings of the Overpass*)
(* responses are taken from a catalogue that gives, with the coordinates,  *)
(* the cells the ring encloses.                                            *)
(***************************************************************************)
EXTENDS Integers, Sequences, FiniteSets, TLC

\* ----------------------------------------------------------------- bounds
GridMax  == 2   \* cells are (0..GridMax) x (0..GridMax)
MaxElems == 2   \* elements in the boundary response
MaxWater == 2   \* elements in the water response
MaxRows  == 2   \* rows of the land shapefile

Cells == (0..GridMax) \X (0..GridMax)

\* --------------------------------------------------------------- geometry
None == [kind |-> "None"]

Geom(c) == [kind |-> "Geom", cells |-> c, valid |-> TRUE, fix |-> c,
            line |-> FALSE, bad |-> FALSE]

IsEmpty(g) == g.cells = {} /\ ~g.line

\* Python truth value of "a geometry or None": None and empty are falsy.
Truthy(g) == g # None /\ ~IsEmpty(g)

Abs(n) == IF n < 0 THEN -n ELSE n

SetMin(S) == CHOOSE m \in S : \A n \in S : m <= n
SetMax(S) == CHOOSE m \in S : \A n \in S : n <= m

\* geometry.bounds of a geometry with area: <<minx, miny, maxx, maxy>>.
Bounds(g) ==
    LET xs == {c[1] : c \in g.cells}
        ys == {c[2] : c \in g.cells}
    IN  <<SetMin(xs), SetMin(ys), SetMax(xs) + 1, SetMax(ys) + 1>>

\* shapely.geometry.box(minx, miny, maxx, maxy)
Box(b) ==
    Geom({c \in Cells : /\ b[1] <= c[1] /\ c[1] + 1 <= b[3]
                        /\ b[2] <= c[2] /\ c[2] + 1 <= b[4]})

\* Two bounding boxes have a point in common.
BBoxOverlap(a, b) ==
    /\ a[1] <= b[3] /\ b[1] <= a[3]
    /\ a[2] <= b[4] /\ b[2] <= a[4]

\* a.intersects(b): the closed point sets share a point (touching counts).
Intersects(g, h) ==
    \E c \in g.cells, d \in h.cells :
        Abs(c[1] - d[1]) <= 1 /\ Abs(c[2] - d[2]) <= 1

\* a.intersection(b)
Intersection(g, h) ==
    LET c == g.cells \cap h.cells
    IN  [Geom(c) EXCEPT !.line = (c = {} /\ Intersects(g, h))]

\* a.difference(b)
Difference(g, h) == Geom(g.cells \ h.cells)

\* shapely.ops.unary_union(list)
UnaryUnion(gs) ==
    LET c == UNION {gs[i].cells : i \in 1..Len(gs)}
    IN  [Geom(c) EXCEPT !.line = (c = {} /\ \E i \in 1..Len(gs) : gs[i].line)]

\* unary_union raises on a numerically degenerate member.
UnionRaises(gs) == \E i \in 1..Len(gs) : gs[i].bad

\* geometry.buffer(0)
Buffer0(g) == Geom(g.fix)

\* "if not g.is_valid: g = g.buffer(0)"
EnsureValid(g) == IF ~g.valid THEN Buffer0(g) ELSE g

\* ------------------------------------------------------------------ rings
\* The library closes an open ring itself before it counts the points.
ImplicitClose(coords) ==
    IF coords # <<>> /\ coords[1] # coords[Len(coords)]
    THEN Append(coords, coords[1]) ELSE coords

\* Polygon(coords) raises ValueError: a linear ring needs 4 coordinates.
PolygonRaises(coords) == coords # <<>> /\ Len(ImplicitClose(coords)) < 4

\* Polygon(coords) of a catalogue ring; Polygon([]) is the empty polygon.
PolygonOf(ring, coords) ==
    IF coords = <<>> THEN Geom({})
    ELSE [kind |-> "Geom", cells |-> ring.cells, valid |-> ring.simple,
          fix |-> ring.fix, line |-> FALSE, bad |-> ring.bad]

\* "if coords[0] != coords[-1]: coords.append(coords[0])"
CloseRing(coords) ==
    IF coords[1] # coords[Len(coords)] THEN Append(coords, coords[1]) ELSE coords


\* -------------------------------------------------------------- catalogue
\* Raw rings an Overpass element can carry: the coordinates, the cells the
\* ring encloses, whether the ring is simple (the polygon is valid), the
\* cells buffer(0) leaves, and whether the coordinates are numerically
\* degenerate (a union over the polygon raises).
Ring(co, ce, si, fx, bd) ==
    [coords |-> co, cells |-> ce, simple |-> si, fix |-> fx, bad |-> bd]

UnitSquare == Ring(<< <<0,0>>, <<1,0>>, <<1,1>>, <<0,1>>, <<0,0>> >>,
                   {<<0,0>>}, TRUE, {<<0,0>>}, FALSE)
OpenSquare == Ring(<< <<1,0>>, <<2,0>>, <<2,1>>, <<1,1>> >>,
                   {<<1,0>>}, TRUE, {<<1,0>>}, FALSE)
EllRing    == Ring(<< <<0,0>>, <<3,0>>, <<3,1>>, <<1,1>>, <<1,3>>, <<0,3>>, <<0,0>> >>,
                   {<<0,0>>, <<1,0>>, <<2,0>>, <<0,1>>, <<0,2>>}, TRUE,
                   {<<0,0>>, <<1,0>>, <<2,0>>, <<0,1>>, <<0,2>>}, FALSE)
\* an unclosed triangle, rasterised to the cells it covers
Triangle   == Ring(<< <<0,0>>, <<2,0>>, <<0,2>> >>,
                   {<<0,0>>, <<1,0>>, <<0,1>>}, TRUE,
                   {<<0,0>>, <<1,0>>, <<0,1>>}, FALSE)
TwoPoints  == Ring(<< <<0,0>>, <<1,1>> >>, {}, FALSE, {}, FALSE)
\* a self-intersecting ring that buffer(0) repairs
Bowtie     == Ring(<< <<0,1>>, <<1,2>>, <<1,1>>, <<0,2>>, <<0,1>> >>,
                   {<<0,1>>}, FALSE, {<<0,1>>}, FALSE)
WholeRing  == Ring(<< <<0,0>>, <<3,0>>, <<3,3>>, <<0,3>>, <<0,0>> >>,
                   {0,1,2} \X {0,1,2}, TRUE, {0,1,2} \X {0,1,2}, FALSE)
Degenerate == Ring(<< <<1,1>>, <<2,1>>, <<2,2>>, <<1,2>>, <<1,1>> >>,
                   {<<1,1>>}, TRUE, {<<1,1>>}, TRUE)
NoCoords   == Ring(<<>>, {}, TRUE, {}, FALSE)

WaterRings    == {UnitSquare, OpenSquare, Triangle, TwoPoints, Bowtie,
                  WholeRing, Degenerate}

\* A relation of the boundary response carries its ring on its member ways
\* ("members") or directly on the relation ("geometry").
Elem(f, r) == [form |-> f, ring |-> r]

MemberElems ==
    {Elem("members", r) :
        r \in {UnitSquare, EllRing, Triangle, TwoPoints, Bowtie, NoCoords}}
AnyElems ==
    {Elem("members", r) : r \in {UnitSquare, EllRing, Triangle, TwoPoints, NoCoords}}
    \cup {Elem("geometry", r) : r \in {UnitSquare, Triangle}}

\* Rows of the land shapefile: valid polygons, some numerically degenerate.
FarEll == {<<2,0>>, <<2,1>>, <<2,2>>, <<1,2>>, <<0,2>>}
LandRowSet ==
    {Geom({<<0,0>>}), Geom({<<1,1>>}), Geom({<<2,2>>}), Geom(FarEll),
     [Geom({<<0,0>>}) EXCEPT !.bad = TRUE]}

SeqsUpTo(S, n) == UNION {[1..k -> S] : k \in 0..n}

\* ------------------------------------------------------------------ state
VARIABLES
    pipeline,       \* "subtract" (sample.py) or "clamp" (show_land_outline.py)
    elements,       \* data["elements"] of the boundary response
    waterEls,       \* data["elements"] of the water response
    landRows,       \* rows of the shapefile at LAND_SHP_PATH
    pc,             \* position of the script
    started,        \* stages started so far, in order
    log,            \* rings the builders have seen, and what they did
    boundary_geom,  \* boundary / boundary_geom
    water,          \* water (sample.py)
    land_gdf,       \* land_gdf
    land_subset,    \* land_subset
    land_union,     \* land_union
    parts,          \* parts of the per-feature fallback
    clamped_geom,   \* land / clamped_geom: the geometry delivered
    raised,         \* library calls that raised inside main's try block
    printed,        \* diagnostics printed on the degraded paths
    status,         \* "Running", "Success" or "Failed"
    err,            \* exception that ended the run
    stage           \* stage the run ended in

vars == <<pipeline, elements, waterEls, landRows, pc, started, log,
          boundary_geom, water, land_gdf, land_subset, land_union, parts,
          clamped_geom, raised, printed, status, err, stage>>

inputs == <<pipeline, elements, waterEls, landRows>>

Init ==
    /\ pipeline \in {"subtract", "clamp"}
    /\ IF pipeline = "subtract"
       THEN /\ elements \in SeqsUpTo(MemberElems, MaxElems)
            /\ waterEls \in SeqsUpTo(WaterRings, MaxWater)
            /\ landRows = <<>>
       ELSE /\ elements \in SeqsUpTo(AnyElems, MaxElems)
            /\ waterEls = <<>>
            /\ landRows \in SeqsUpTo(LandRowSet, MaxRows)
    /\ pc = "start"
    /\ started = <<>>
    /\ log = {}
    /\ boundary_geom = None
    /\ water = None
    /\ land_gdf = <<>>
    /\ land_subset = <<>>
    /\ land_union = None
    /\ parts = <<>>
    /\ clamped_geom = None
    /\ raised = {}
    /\ printed = {}
    /\ status = "Running"
    /\ err = "none"
    /\ stage = "none"

\* An uncaught exception ends the script.
Fail(e, st) ==
    /\ status' = "Failed"
    /\ err' = e
    /\ stage' = st
    /\ pc' = "done"

Running ==
    /\ UNCHANGED <<status, err, stage>>


\* One line of the builders' record: the raw coordinates of an element,
\* whether a ring was passed to Polygon(), that ring, and whether Polygon()
\* returned a polygon.
Entry(site, raw, passed, ring, built) ==
    [site |-> site, raw |-> raw, passed |-> passed, ring |-> ring,
     built |-> built]

\* ============================================================== sample.py
\* fetch_place_boundary: the first relation's way coordinates go to
\* Polygon() as they are.
SampleBoundaryRaises ==
    elements # <<>> /\ PolygonRaises(elements[1].ring.coords)

SampleBoundary ==
    IF elements = <<>> THEN None
    ELSE PolygonOf(elements[1].ring, elements[1].ring.coords)

SampleBoundaryLog ==
    IF elements = <<>> THEN {}
    ELSE {Entry("sample-boundary", elements[1].ring.coords, TRUE,
                elements[1].ring.coords, ~SampleBoundaryRaises)}

S_FetchPlaceBoundary ==
    /\ pipeline = "subtract"
    /\ pc = "start"
    /\ started' = Append(started, "build-boundary")
    /\ log' = log \cup SampleBoundaryLog
    /\ IF SampleBoundaryRaises
       THEN /\ Fail("ValueError", "build-boundary")
            /\ UNCHANGED boundary_geom
       ELSE /\ boundary_geom' = SampleBoundary
            /\ pc' = "water"
            /\ Running
    /\ UNCHANGED <<inputs, water, land_gdf, land_subset, land_union, parts,
                   clamped_geom, raised, printed>>

\* fetch_water, per element: "if len(coords) < 4: continue", then close.
WaterPassed(ring) == Len(ring.coords) >= 4

WaterHanded(ring) == CloseRing(ring.coords)

\* "if poly.is_valid and not poly.is_empty: water_polys.append(poly)"
WaterKept(ring) ==
    /\ WaterPassed(ring)
    /\ ~PolygonRaises(WaterHanded(ring))
    /\ LET poly == PolygonOf(ring, WaterHanded(ring))
       IN  poly.valid /\ ~IsEmpty(poly)

WaterPolys(els) ==
    LET kept == SelectSeq(els, WaterKept)
    IN  [i \in 1..Len(kept) |-> PolygonOf(kept[i], WaterHanded(kept[i]))]

WaterLog(els) ==
    {Entry("water", els[i].coords, WaterPassed(els[i]),
           IF WaterPassed(els[i]) THEN WaterHanded(els[i]) ELSE <<>>,
           WaterPassed(els[i]) /\ ~PolygonRaises(WaterHanded(els[i])))
       : i \in 1..Len(els)}

\* fetch_water: boundary.bounds first, then the rings, then the union.
S_FetchWater ==
    /\ pipeline = "subtract"
    /\ pc = "water"
    /\ IF boundary_geom = None
       THEN /\ Fail("AttributeError", "fetch-water")
            /\ started' = Append(started, "fetch-water")
            /\ UNCHANGED <<water, log>>
       ELSE IF IsEmpty(boundary_geom)
       THEN /\ Fail("ValueError", "fetch-water")
            /\ started' = Append(started, "fetch-water")
            /\ UNCHANGED <<water, log>>
       ELSE /\ log' = log \cup WaterLog(waterEls)
            /\ started' = started \o <<"fetch-water", "union">>
            /\ IF WaterPolys(waterEls) = <<>>
               THEN /\ water' = None
                    /\ pc' = "subtract"
                    /\ Running
               ELSE IF UnionRaises(WaterPolys(waterEls))
               THEN /\ Fail("GEOSException", "union")
                    /\ UNCHANGED water
               ELSE /\ water' = UnaryUnion(WaterPolys(waterEls))
                    /\ pc' = "subtract"
                    /\ Running
    /\ UNCHANGED <<inputs, boundary_geom, land_gdf, land_subset, land_union,
                   parts, clamped_geom, raised, printed>>

\* A set operation on floating-point polygons can return an invalid
\* geometry from valid operands; buffer(0) then keeps its area.
OpResult(g, inv) == IF inv /\ g.cells # {} THEN [g EXCEPT !.valid = FALSE] ELSE g

\* land_only_boundary after the two fetches.
LandOnly(b, w) ==
    IF Truthy(b) /\ Truthy(w)
    THEN Difference(EnsureValid(b), EnsureValid(w))
    ELSE b

S_LandOnlyBoundary ==
    /\ pipeline = "subtract"
    /\ pc = "subtract"
    /\ started' = Append(started, "boolean-op")
    /\ \E inv \in BOOLEAN :
          clamped_geom' =
              IF Truthy(boundary_geom) /\ Truthy(water)
              THEN OpResult(LandOnly(boundary_geom, water), inv)
              ELSE LandOnly(boundary_geom, water)
    /\ status' = "Success"
    /\ pc' = "done"
    /\ UNCHANGED <<inputs, log, boundary_geom, water, land_gdf, land_subset,
                   land_union, parts, raised, printed, err, stage>>


\* ==================================================== show_land_outline.py
\* fetch_place_boundary, per element.  Member ways: every coordinate is
\* collected and the ring closed, whatever its length.  Geometry on the
\* relation: only a list of at least 4 coordinates is closed and built.
ClampPassed(el) ==
    IF el.form = "members" THEN el.ring.coords # <<>>
    ELSE Len(el.ring.coords) >= 4

ClampHanded(el) == CloseRing(el.ring.coords)

ClampKept(el) ==
    /\ ClampPassed(el)
    /\ ~PolygonRaises(ClampHanded(el))
    /\ LET poly == PolygonOf(el.ring, ClampHanded(el))
       IN  poly.valid /\ ~IsEmpty(poly)

ClampGeoms(els) ==
    LET kept == SelectSeq(els, ClampKept)
    IN  [i \in 1..Len(kept) |-> PolygonOf(kept[i].ring, ClampHanded(kept[i]))]

ClampLog(els) ==
    {Entry("boundary-" \o els[i].form, els[i].ring.coords, ClampPassed(els[i]),
           IF ClampPassed(els[i]) THEN ClampHanded(els[i]) ELSE <<>>,
           ClampPassed(els[i]) /\ ~PolygonRaises(ClampHanded(els[i])))
       : i \in 1..Len(els)}

\* "if len(geoms) == 1: return geoms[0]" / "return unary_union(geoms)"
ClampBoundary(geoms) ==
    IF Len(geoms) = 1 THEN geoms[1] ELSE UnaryUnion(geoms)

\* main, step 1: gpd.read_file(land_shp_path), before anything else.
M_LoadLand ==
    /\ pipeline = "clamp"
    /\ pc = "start"
    /\ started' = Append(started, "fetch-candidates")
    /\ land_gdf' = landRows
    /\ pc' = "boundary"
    /\ Running
    /\ UNCHANGED <<inputs, log, boundary_geom, water, land_subset, land_union,
                   parts, clamped_geom, raised, printed>>

\* main, step 2: fetch_place_boundary and "ensure valid".
M_FetchPlaceBoundary ==
    /\ pipeline = "clamp"
    /\ pc = "boundary"
    /\ started' = Append(started, "build-boundary")
    /\ log' = log \cup ClampLog(elements)
    /\ IF ClampGeoms(elements) = <<>>
       THEN /\ Fail("BoundaryNotFound", "build-boundary")
            /\ UNCHANGED boundary_geom
       ELSE /\ boundary_geom' = EnsureValid(ClampBoundary(ClampGeoms(elements)))
            /\ pc' = "filter"
            /\ Running
    /\ UNCHANGED <<inputs, water, land_gdf, land_subset, land_union, parts,
                   clamped_geom, raised, printed>>

\* A filter on bounding boxes instead of shapes.
LandSubset_ByBBox(rows, bbox_poly) ==
    SelectSeq(rows, LAMBDA g : BBoxOverlap(Bounds(g), Bounds(bbox_poly)))

\* land_gdf[land_gdf.intersects(bbox_poly)]
LandSubset(rows, bbox_poly) ==
    SelectSeq(rows, LAMBDA g : Intersects(g, bbox_poly))

\* main, step 3: filter the rows by the boundary's bounding box.
M_Prefilter ==
    /\ pipeline = "clamp"
    /\ pc = "filter"
    /\ started' = Append(started, "prefilter")
    /\ land_subset' = LandSubset(land_gdf, Box(Bounds(boundary_geom)))
    /\ printed' = IF land_subset' = <<>>
                  THEN printed \cup {"no-land-in-bbox"} ELSE printed
    /\ pc' = "clamp"
    /\ Running
    /\ UNCHANGED <<inputs, log, boundary_geom, water, land_gdf, land_union,
                   parts, clamped_geom, raised>>

\* A fallback loop that gives up at the first candidate that raises.
RECURSIVE PerFeatureParts_Abort(_, _)
PerFeatureParts_Abort(sub, b) ==
    IF sub = <<>> THEN <<>>
    ELSE LET geom == Head(sub)
         IN  IF geom.bad THEN <<>>
             ELSE IF ~IsEmpty(Intersection(geom, b))
             THEN <<Intersection(geom, b)>> \o PerFeatureParts_Abort(Tail(sub), b)
             ELSE PerFeatureParts_Abort(Tail(sub), b)

\* The except branch: "for geom in land_subset.geometry: try ... except:
\* continue", keeping the intersections that are not empty.
RECURSIVE PerFeatureParts(_, _)
PerFeatureParts(sub, b) ==
    IF sub = <<>> THEN <<>>
    ELSE LET geom == Head(sub)
             rest == PerFeatureParts(Tail(sub), b)
         IN  IF geom.bad THEN rest
             ELSE IF ~IsEmpty(Intersection(geom, b))
             THEN <<Intersection(geom, b)>> \o rest
             ELSE rest

\* A fallback that delivers nothing when no part is left.
FallbackGeom_Empty(ps, b) == IF ps # <<>> THEN UnaryUnion(ps) ELSE Geom({})

\* "unary_union(parts) if parts else boundary_geom"
FallbackGeom(ps, b) == IF ps # <<>> THEN UnaryUnion(ps) ELSE b

\* An intersection with nothing taken literally: the empty geometry.
NoCandidateGeom_Empty(b) == Geom({})

\* "clamped_geom = boundary_geom  # fallback" when there is no land union
NoCandidateGeom(b) == b

\* main, step 4: the try block and its except branch.
M_UnionIntersect ==
    /\ pipeline = "clamp"
    /\ pc = "clamp"
    /\ \E interRaises \in BOOLEAN, inv \in BOOLEAN :
          IF Len(land_subset) = 0
          THEN /\ started' = Append(started, "union")
               /\ clamped_geom' = NoCandidateGeom(boundary_geom)
               /\ UNCHANGED <<land_union, parts, raised, printed>>
          ELSE IF UnionRaises(land_subset)
          THEN /\ started' = Append(started, "union")
               /\ raised' = raised \cup {"union"}
               /\ printed' = printed \cup {"fallback-per-feature"}
               /\ parts' = PerFeatureParts(land_subset, boundary_geom)
               /\ clamped_geom' = FallbackGeom(parts', boundary_geom)
               /\ UNCHANGED land_union
          ELSE /\ started' = started \o <<"union", "boolean-op">>
               /\ land_union' = UnaryUnion(land_subset)
               /\ IF interRaises
                  THEN /\ raised' = raised \cup {"intersection"}
                       /\ printed' = printed \cup {"fallback-per-feature"}
                       /\ parts' = PerFeatureParts(land_subset, boundary_geom)
                       /\ clamped_geom' = FallbackGeom(parts', boundary_geom)
                  ELSE /\ clamped_geom' =
                             OpResult(Intersection(boundary_geom, land_union'), inv)
                       /\ UNCHANGED <<parts, raised, printed>>
    /\ pc' = "repair"
    /\ Running
    /\ UNCHANGED <<inputs, log, boundary_geom, water, land_gdf, land_subset>>

\* main: "if not clamped_geom.is_valid: clamped_geom = clamped_geom.buffer(0)",
\* after which the geometry goes to the map.
M_EnsureValid ==
    /\ pipeline = "clamp"
    /\ pc = "repair"
    /\ started' = Append(started, "repair")
    /\ clamped_geom' = EnsureValid(clamped_geom)
    /\ status' = "Success"
    /\ pc' = "done"
    /\ UNCHANGED <<inputs, log, boundary_geom, water, land_gdf, land_subset,
                   land_union, parts, raised, printed, err, stage>>

Next ==
    \/ S_FetchPlaceBoundary
    \/ S_FetchWater
    \/ S_LandOnlyBoundary
    \/ M_LoadLand
    \/ M_FetchPlaceBoundary
    \/ M_Prefilter
    \/ M_UnionIntersect
    \/ M_EnsureValid

Spec == Init /\ [][Next]_vars


\* ================================================================= claims
Range(f) == {f[i] : i \in DOMAIN f}

Ran(st) == st \in Range(started)

\* Stages started after "build-boundary".
LaterStages ==
    {started[j] : j \in {k \in DOMAIN started :
                            \E i \in DOMAIN started :
                                i < k /\ started[i] = "build-boundary"}}

\* Number of distinct coordinates of a raw ring (removing consecutive
\* duplicates does not change it).
DistinctCoords(coords) == Cardinality(Range(coords))

\* The degraded path is reported: one of the two diagnostics was printed.
UsedFallback == printed # {}

\* Rows of the filtered subset whose own intersection does not raise, and
\* their non-empty intersections with the boundary.
GoodParts ==
    {Intersection(land_subset[i], boundary_geom) :
        i \in {k \in DOMAIN land_subset :
                  /\ ~land_subset[k].bad
                  /\ ~IsEmpty(Intersection(land_subset[k], boundary_geom))}}

GoodCells == UNION {p.cells : p \in GoodParts}

FallbackTaken == pipeline = "clamp" /\ pc = "done" /\ raised # {}

\* C1: when the boundary response has no element, the run ends in
\* Failed(BoundaryNotFound) at stage build-boundary and starts no later stage.
C1_BoundaryNotFoundFailsFast ==
    (pc = "done" /\ elements = <<>>) =>
        /\ status = "Failed"
        /\ err = "BoundaryNotFound"
        /\ stage = "build-boundary"
        /\ LaterStages = {}

\* C2: the geometry the subtract pipeline delivers with Success is the
\* boundary minus every water ring that has 3 distinct coordinates, the
\* self-intersecting rings that buffer(0) repairs included.
C2_SubtractsEveryRepairableRing ==
    (pipeline = "subtract" /\ pc = "done" /\ status = "Success") =>
        clamped_geom.cells =
              elements[1].ring.fix \
              UNION {waterEls[i].fix :
                        i \in {k \in DOMAIN waterEls :
                                  DistinctCoords(waterEls[k].coords) >= 3}}

\* C3: in the clamp pipeline, when the prefilter leaves no candidate
\* (an empty land collection included) the run ends in Success with the
\* repaired boundary unchanged, and the degraded path is reported.
C3_NoCandidateKeepsBoundary ==
    (pipeline = "clamp" /\ pc = "done" /\ Ran("prefilter")
        /\ land_subset = <<>>) =>
        /\ status = "Success"
        /\ clamped_geom = boundary_geom
        /\ UsedFallback

C3_Witness ==
    /\ pipeline = "clamp" /\ pc = "done" /\ Ran("prefilter")
    /\ land_subset = <<>> /\ land_gdf # <<>>
    /\ status = "Success"

\* C4: the water-ring builder and the boundary-ring builder reject a raw
\* ring exactly when it has fewer than 3 distinct coordinates.
C4_RejectsExactlyInsufficientPoints ==
    \A e \in log :
        e.site \in {"water", "boundary-members", "boundary-geometry"} =>
            ((~e.built) <=> (DistinctCoords(e.raw) < 3))

\* C5 as stated: every row the prefilter excludes has a bounding box
\* disjoint from the boundary's bounding box.
C5_ExcludedHaveDisjointBBox ==
    Ran("prefilter") =>
        \A i \in DOMAIN land_gdf :
            land_gdf[i] \notin Range(land_subset) =>
                ~BBoxOverlap(Bounds(land_gdf[i]), Bounds(boundary_geom))

\* C5 amended: the prefilter keeps exactly the rows whose own shape meets
\* the boundary's bounding box, so every excluded row is disjoint from the
\* box and from the boundary.
C5_KeepsRowsMeetingBox ==
    Ran("prefilter") =>
        \A i \in DOMAIN land_gdf :
            /\ land_gdf[i] \in Range(land_subset)
                  <=> Intersects(land_gdf[i], Box(Bounds(boundary_geom)))
            /\ land_gdf[i] \notin Range(land_subset)
                  => IsEmpty(Intersection(land_gdf[i], boundary_geom))

C5_Witness ==
    /\ Ran("prefilter")
    /\ \E i \in DOMAIN land_gdf :
          /\ land_gdf[i] \notin Range(land_subset)
          /\ BBoxOverlap(Bounds(land_gdf[i]), Bounds(boundary_geom))

\* C6 as stated: after the union or the intersection raised, the final
\* geometry is the union of the non-empty per-candidate intersections
\* (empty when there is none), and the fallback is reported.
C6_FallbackIsUnionOfParts ==
    FallbackTaken =>
        /\ clamped_geom.cells = GoodCells
        /\ (GoodParts = {} => IsEmpty(clamped_geom))
        /\ UsedFallback

\* C6 amended: the same, except that with no non-empty intersection the
\* final geometry is the boundary itself.
C6_FallbackIsUnionOfPartsOrBoundary ==
    FallbackTaken =>
        /\ IF GoodParts # {}
           THEN clamped_geom.cells = GoodCells /\ ~IsEmpty(clamped_geom)
           ELSE clamped_geom = boundary_geom
        /\ UsedFallback

C6_Witness ==
    /\ FallbackTaken
    /\ GoodParts # {}
    /\ \E i \in DOMAIN land_subset : land_subset[i].bad
    /\ clamped_geom.cells # boundary_geom.cells

\* C7: a geometry delivered with Success is valid and not empty.
C7_SuccessIsValidNonEmpty ==
    (pc = "done" /\ status = "Success") =>
        /\ clamped_geom # None
        /\ clamped_geom.valid
        /\ ~IsEmpty(clamped_geom)

\* C8: when the batch union raises, the run does not fail and the reduced
\* geometry is the union of the candidates that can be unioned.
BatchUnionRaised ==
    \/ pipeline = "clamp" /\ "union" \in raised
    \/ pipeline = "subtract" /\ Ran("union") /\ UnionRaises(WaterPolys(waterEls))

Unionable(gs) == SelectSeq(gs, LAMBDA g : ~g.bad)

C8_UnionFallsBackSequentially ==
    (pc = "done" /\ BatchUnionRaised) =>
        /\ status # "Failed"
        /\ LET cands == IF pipeline = "clamp" THEN land_subset
                        ELSE WaterPolys(waterEls)
               reduced == IF pipeline = "clamp" THEN land_union ELSE water
           IN  reduced = IF Unionable(cands) = <<>> THEN None
                         ELSE UnaryUnion(Unionable(cands))

\* C9 as stated: when the fallback yields nothing either, the run ends in
\* Failed(BooleanOpFailure).
C9_EmptyFallbackFails ==
    (FallbackTaken /\ GoodParts = {}) =>
        status = "Failed" /\ err = "BooleanOpFailure"

\* C9 amended: when the fallback yields nothing either, the run ends in
\* Success with the unclamped boundary, after printing the fallback
\* diagnostic.
C9_EmptyFallbackShowsBoundary ==
    (FallbackTaken /\ GoodParts = {}) =>
        /\ status = "Success"
        /\ clamped_geom = boundary_geom
        /\ "fallback-per-feature" \in printed

C9_Witness ==
    /\ FallbackTaken /\ GoodParts = {}
    /\ status = "Success"
    /\ land_subset # <<>>

\* C10: every ring passed to Polygon() is closed and has at least 4 points.
C10_HandedRingsAreClosed ==
    \A e \in log :
        e.passed => Len(e.ring) >= 4 /\ e.ring[1] = e.ring[Len(e.ring)]

====
